---------------------------- MODULE Spec2Model ----------------------------
(***************************************************************************)
(* The gateway connection subsystem of the monitor dashboard               *)
(* (src/server/gatewayWs.js, class GatewayWs), as a state machine.         *)
(*                                                                         *)
(* One GatewayWs instance lives in one Node.js execution context.  Every   *)
(* action below is one macrotask of that context: a public entry point     *)
(* (start, stop, request), one event of one transport (open, message,      *)
(* close, error), or the firing of the reconnect timer.  The continuation  *)
(* of the `await` in _sendConnect is a microtask: it runs when the         *)
(* macrotask that settled the awaited promise has returned, before any     *)
(* other macrotask.  The `ws` library emits the messages of one received   *)
(* chunk synchronously, so the later messages of a chunk are handled       *)
(* between the settling of the promise and its continuation.               *)
(*                                                                         *)
(* All handlers registered in _connect close over `this`, not over the     *)
(* socket they were registered on, so the handlers of every transport the  *)
(* instance ever created read and write the same fields.                   *)
(*                                                                         *)
(* Four specifications share the actions.   Spec is the instance with any  *)
(* caller and a gateway that issues no device token; SpecTokens is the     *)
(* same with a gateway that issues device tokens, which the instance keeps *)
(* in the file of its DeviceTokenStore; SpecLive is the connection when    *)
(* stop() is never called, with the fairness the runtime provides;         *)
(* SpecAuth is the handshake of an instance with any configured secret,    *)
(* on a run that finds any token file an earlier run left.                 *)
(*                                                                         *)
(* The two stores (DeviceTokenStore, DeviceIdentityStore) are also         *)
(* specified on their own, with any caller: SpecStore is the token store   *)
(* under any sequence of load() and save(), SpecCrash the same when a      *)
(* save() can be interrupted, and SpecIdentity is loadOrCreateIdentity()   *)
(* over any identity file.                                                 *)
(***************************************************************************)
EXTENDS Integers, FiniteSets, Sequences, TLC

-----------------------------------------------------------------------------
(* Bounds of the model *)

\* Transport slots.  A slot whose transport has delivered its close event is
\* free again: a closed WebSocket never emits another event.
MaxTransports == 2

\* Correlation ids that are in use at one time: the ids of the entries of
\* this.pending and of the entries stop() has dropped from it.
MaxIds == 2

\* Messages the transport delivers in one chunk, that is in one macrotask.
MaxChunk == 1

Slots == 1..MaxTransports
Ids   == 1..MaxIds

-----------------------------------------------------------------------------
(* Values *)

\* this._connectNonce = msg?.payload?.nonce ?? null  (gatewayWs.js:303)
NullNonce == "<null>"
Nonces    == {"abc", "xyz"}
NonceVals == Nonces \cup {"", NullNonce}

\* absent string field of a record
None == "-"

\* An Error object: its message, and for "gateway closed" the close code and
\* reason the message is built from (gatewayWs.js:328).
Err(msg, code, reason) == [msg |-> msg, code |-> code, reason |-> reason]
NoErr == Err(None, 0, None)

\* The argument of onStatus: {connected, phase?, error?, code?, reason?}
Status(connected, phase, error, code, reason) ==
    [connected |-> connected, phase |-> phase, error |-> error,
     code |-> code, reason |-> reason]

\* The scopes _sendConnect asks for (gatewayWs.js:215), which is also the
\* ascending order of the scope strings.
RequestedScopes == <<"operator.admin", "operator.approvals", "operator.pairing">>
ScopeOrder == RequestedScopes

\* String(s).trim() of a scope string: one string with white space around it
\* and one of white space only stand for all such strings.
PaddedScope == " operator.admin "
BlankScope == "  "
trim(x) == IF x = PaddedScope THEN "operator.admin"
           ELSE IF x = BlankScope THEN ""
           ELSE x

\* an absent list of scopes (undefined, null)
NoScopes == <<None>>

\* Hello payloads of a connect response: {auth?: {deviceToken?, scopes?}}
Hello(deviceToken, scopes) == [deviceToken |-> deviceToken, scopes |-> scopes]
NoPayload == Hello(None, NoScopes)
GrantedScopes == <<"operator.pairing", "operator.admin", "operator.pairing">>
Payloads == {NoPayload, Hello("", NoScopes), Hello("tkn1", NoScopes),
             Hello("tkn1", GrantedScopes)}

\* error?.message carried by an ok:false response (None: no message)
ErrMsgs == {None, "boom"}

\* Close code and reason of a close event
CloseInfo(code, reason) == [code |-> code, reason |-> reason]
NoClose == CloseInfo(0, None)

\* Inbound messages, after JSON.parse (gatewayWs.js:298-299)
Msg(type, event, nonce, id, ok, payload, error) ==
    [type |-> type, event |-> event, nonce |-> nonce, id |-> id, ok |-> ok,
     payload |-> payload, error |-> error]
ChallengeMsgs == {Msg("event", "connect.challenge", n, 0, FALSE, NoPayload, None) :
                    n \in NonceVals}
EventMsgs == {Msg("event", e, NullNonce, 0, FALSE, NoPayload, None) :
                    e \in {"tick"}}
ResMsgs(payloads, errors) ==
    {Msg("res", None, NullNonce, i, TRUE, p, None) : i \in Ids, p \in payloads}
    \cup {Msg("res", None, NullNonce, i, FALSE, NoPayload, m) : i \in Ids, m \in errors}
\* unparseable data, or a message of another type
GarbageMsg == Msg("other", None, NullNonce, 0, FALSE, NoPayload, None)

\* What a gateway that issues no device token sends
Messages ==
    ChallengeMsgs \cup EventMsgs \cup ResMsgs({NoPayload}, ErrMsgs) \cup {GarbageMsg}

\* The messages that bear on the connection: a challenge with and without a
\* nonce, and the responses
LiveMessages ==
    {m \in ChallengeMsgs : m.nonce \in {"abc", NullNonce}}
    \cup ResMsgs({NoPayload}, {None})

\* What a gateway that issues device tokens sends: challenges with a nonce,
\* events and responses
TokenMessages ==
    {m \in ChallengeMsgs : m.nonce = "abc"} \cup EventMsgs
    \cup ResMsgs(Payloads, {None})

UserMethods == {"sessions.list"}

Range(f) == {f[i] : i \in DOMAIN f}

\* The result of a settled request promise
Resolved(payload) == [ok |-> TRUE, payload |-> payload, error |-> NoErr]
Rejected(error)   == [ok |-> FALSE, payload |-> NoPayload, error |-> error]

-----------------------------------------------------------------------------
(* The token store: DeviceTokenStore and the file it keeps *)

\* this._identity.deviceId and the role of the handshake (gatewayWs.js:214)
DeviceId == "dev1"

\* The arguments of load() and save(): device ids, roles, tokens ("" is the
\* empty token) and lists of scopes
DeviceIds == {"dev1", "dev2"}
Roles == {"operator", "node"}
Tokens == {"tkn1", "tkn2"}
ScopeLists == {NoScopes, <<>>, RequestedScopes, GrantedScopes,
               <<PaddedScope, "operator.admin">>, <<BlankScope, "", "operator.pairing">>}

\* The file: NoFile when it does not exist, else the container
\* {version: 1, deviceId, tokens: {role: {token, role, scopes, updatedAtMs}}}
\* (updatedAtMs, the clock at the time of the save, is left out).
NoEntry == [token |-> None, role |-> None, scopes |-> <<>>]
Container(deviceId, tokens) == [deviceId |-> deviceId, tokens |-> tokens]
NoFile == Container(None, [r \in Roles |-> NoEntry])

\* A file _read() rejects: its content is not JSON (an empty or truncated
\* file) or is not a version 1 container.
Unreadable == Container("<unreadable>", [r \in Roles |-> NoEntry])

\* _read(): the parsed container, null (NoFile) when the file is absent,
\* cannot be parsed or fails the checks of the parsed value.
_read(file) == IF file = Unreadable THEN NoFile ELSE file

\* the scopes as they are given (mutant)
normScopesAsGiven(scopes) ==
    IF scopes = NoScopes THEN <<>> ELSE scopes

\* Array.from(new Set(scopes.map(trim).filter(Boolean))).sort(), [] when
\* scopes is not an array
normScopes(scopes) ==
    IF scopes = NoScopes THEN <<>>
    ELSE SelectSeq(ScopeOrder,
                   LAMBDA x : x \in {trim(y) : y \in Range(scopes)} \ {""})

\* load() that does not compare the deviceId (mutant)
loadAnyDevice(file, deviceId, role) ==
    LET s == _read(file) IN
    IF s = NoFile THEN None
    ELSE IF s.tokens[role] = NoEntry THEN None
    ELSE s.tokens[role].token

\* load(deviceId, role): the token, None for null
load(file, deviceId, role) ==
    LET s == _read(file) IN
    IF s = NoFile \/ s.deviceId # deviceId THEN None
    ELSE IF s.tokens[role] = NoEntry THEN None
    ELSE s.tokens[role].token

\* save() that keeps the entries of a container of any deviceId (mutant)
saveKeepsAll(file, deviceId, role, token, scopes) ==
    IF token \in {None, ""} THEN file
    ELSE LET existing == _read(file)
             tokens == IF existing # NoFile
                       THEN existing.tokens ELSE [r \in Roles |-> NoEntry]
         IN Container(deviceId,
                [tokens EXCEPT ![role] = [token |-> token, role |-> role,
                                          scopes |-> normScopes(scopes)]])

\* save() without its first line (mutant)
saveEmptyToken(file, deviceId, role, token, scopes) ==
    LET existing == _read(file)
        tokens == IF existing # NoFile /\ existing.deviceId = deviceId
                  THEN existing.tokens ELSE [r \in Roles |-> NoEntry]
    IN Container(deviceId,
           [tokens EXCEPT ![role] = [token |-> token, role |-> role,
                                     scopes |-> normScopes(scopes)]])

\* save(deviceId, role, token, scopes): the file after the call
save(file, deviceId, role, token, scopes) ==
    IF token \in {None, ""} THEN file
    ELSE LET existing == _read(file)
             tokens == IF existing # NoFile /\ existing.deviceId = deviceId
                       THEN existing.tokens ELSE [r \in Roles |-> NoEntry]
         IN Container(deviceId,
                [tokens EXCEPT ![role] = [token |-> token, role |-> role,
                                          scopes |-> normScopes(scopes)]])

-----------------------------------------------------------------------------
(* The identity store: DeviceIdentityStore and the file it keeps *)

\* PEM strings.  pkA and pkB are Ed25519 public keys, pkR is a public key of
\* another algorithm, JunkPem is a string crypto.createPublicKey() rejects.
Ed25519Pems == {"pkA", "pkB"}
PublicPems == Ed25519Pems \cup {"pkR"}
JunkPem == "junk"

\* The SPKI DER of a public key: the algorithm prefix and the key bytes
ED25519_SPKI_PREFIX == "302a300506032b6570032100"
Spki(publicKeyPem) ==
    CASE publicKeyPem = "pkA" -> <<ED25519_SPKI_PREFIX, "rawA">>
      [] publicKeyPem = "pkB" -> <<ED25519_SPKI_PREFIX, "rawB">>
      [] publicKeyPem = "pkR" -> <<"30820122", "rawR">>

\* derivePublicKeyRaw(): the key bytes behind the Ed25519 prefix, or else the
\* whole SPKI
derivePublicKeyRaw(publicKeyPem) ==
    LET spki == Spki(publicKeyPem) IN
    IF spki[1] = ED25519_SPKI_PREFIX THEN <<spki[2]>> ELSE spki

\* sha256 hex digest, taken to be free of collisions
sha256hex(bytes) ==
    CASE bytes = <<"rawA">> -> "dev1"
      [] bytes = <<"rawB">> -> "dev2"
      [] bytes = <<"30820122", "rawR">> -> "dev3"

\* fingerprintPublicKey()
fingerprintPublicKey(publicKeyPem) == sha256hex(derivePublicKeyRaw(publicKeyPem))

\* The identity file: {version, deviceId, publicKeyPem, privateKeyPem,
\* createdAtMs}, where a field that is missing or not of its type is None
\* (0 for a number).  NoIdFile: the file does not exist.  CorruptIdFile: its
\* content is not JSON.
IdFile(version, deviceId, publicKeyPem, privateKeyPem, createdAtMs) ==
    [version |-> version, deviceId |-> deviceId, publicKeyPem |-> publicKeyPem,
     privateKeyPem |-> privateKeyPem, createdAtMs |-> createdAtMs]
NoIdFile == IdFile(0, "<absent>", None, None, 0)
CorruptIdFile == IdFile(0, "<corrupt>", None, None, 0)

\* Date.now() when the identity is generated
Now == 7

\* The files loadOrCreateIdentity() may find
IdFiles ==
    {NoIdFile, CorruptIdFile} \cup
    {IdFile(v, d, pk, sk, c) :
        v \in {1, 2}, d \in {None, "dev1", "dev2"},
        pk \in {None, "pkA", "pkR", JunkPem}, sk \in {None, "skA", "skR"},
        c \in {0, 5}}

\* {deviceId, publicKeyPem, privateKeyPem}
Identity(deviceId, publicKeyPem, privateKeyPem) ==
    [deviceId |-> deviceId, publicKeyPem |-> publicKeyPem,
     privateKeyPem |-> privateKeyPem]
NoIdentity == Identity(None, None, None)

\* crypto.generateKeyPairSync('ed25519'): any Ed25519 key pair
KeyPairs == {[publicKeyPem |-> "pkA", privateKeyPem |-> "skA"],
             [publicKeyPem |-> "pkB", privateKeyPem |-> "skB"]}

\* What loadOrCreateIdentity() leaves: the file, the identity it returns and
\* whether it threw instead of returning.
IdResult(file, identity, threw) ==
    [file |-> file, identity |-> identity, threw |-> threw]

\* The try block (gatewayWs.js:69-94): threw when JSON.parse or
\* fingerprintPublicKey throws, an identity when the file holds a version 1
\* record with its three strings, NoIdentity when the block falls through.
loadIdentity(file) ==
    IF file = NoIdFile THEN IdResult(file, NoIdentity, FALSE)
    ELSE IF file = CorruptIdFile THEN IdResult(file, NoIdentity, TRUE)
    ELSE IF /\ file.version = 1
            /\ file.deviceId # None
            /\ file.publicKeyPem # None
            /\ file.privateKeyPem # None
    THEN IF file.publicKeyPem \notin PublicPems
         THEN IdResult(file, NoIdentity, TRUE)
         ELSE LET derivedId == fingerprintPublicKey(file.publicKeyPem) IN
              IF derivedId # file.deviceId
              THEN IdResult([file EXCEPT !.deviceId = derivedId],
                            Identity(derivedId, file.publicKeyPem, file.privateKeyPem),
                            FALSE)
              ELSE IdResult(file,
                            Identity(file.deviceId, file.publicKeyPem, file.privateKeyPem),
                            FALSE)
    ELSE IdResult(file, NoIdentity, FALSE)

\* The generation of an identity and the write of its file
\* (gatewayWs.js:97-109)
createIdentity(pair) ==
    LET deviceId == fingerprintPublicKey(pair.publicKeyPem) IN
    IdResult(IdFile(1, deviceId, pair.publicKeyPem, pair.privateKeyPem, Now),
             Identity(deviceId, pair.publicKeyPem, pair.privateKeyPem), FALSE)

\* loadOrCreateIdentity() without its catch (mutant)
loadOrCreateIdentityNoCatch(file, pair) ==
    LET r == loadIdentity(file) IN
    IF r.threw \/ r.identity # NoIdentity THEN r
    ELSE createIdentity(pair)

\* loadOrCreateIdentity() that trusts the stored deviceId (mutant)
loadOrCreateIdentityTrusting(file, pair) ==
    LET r == loadIdentity(file) IN
    IF ~r.threw /\ r.identity # NoIdentity
    THEN IdResult(file, [r.identity EXCEPT !.deviceId = file.deviceId], FALSE)
    ELSE createIdentity(pair)

\* loadOrCreateIdentity() whose repair writes a new record (mutant)
loadOrCreateIdentityRewrites(file, pair) ==
    LET r == loadIdentity(file) IN
    IF ~r.threw /\ r.identity # NoIdentity
    THEN IF r.file # file THEN [r EXCEPT !.file.createdAtMs = Now] ELSE r
    ELSE createIdentity(pair)

\* loadOrCreateIdentity(): pair is the key pair generateKeyPairSync() returns
\* if it is called
loadOrCreateIdentity(file, pair) ==
    LET r == loadIdentity(file) IN
    IF ~r.threw /\ r.identity # NoIdentity THEN r
    ELSE createIdentity(pair)

-----------------------------------------------------------------------------
(* State *)

VARIABLES
    ws,              \* this.ws: 0 (null) or the slot of the transport
    readyState,      \* readyState of each slot's WebSocket
    closeArgs,       \* code/reason of the first close() call on an open transport
    pending,         \* this.pending: per id NoCall (no entry), or the method of
                     \* the request and the transport it was sent on
    connected,       \* this.connected
    reconnectTimer,  \* this._reconnectTimer is non-null
    timers,          \* number of armed setTimeout callbacks
    connectSent,     \* this._connectSent
    connectNonce,    \* this._connectNonce
    tokenFile,       \* the file of this._tokenStore
    token,           \* this.token: the configured shared secret, None when
                     \* none is configured
    identityFile,    \* the file of this._identityStore
    identity,        \* this._identity: what loadOrCreateIdentity() returned
    storeOp,         \* the last call of a method of one of the two stores
    built,           \* the last call of buildDeviceAuthPayload() by a caller
                     \* other than _sendConnect(): its argument and its result
    state,           \* the state object of the HTTP facade (index.js), which
                     \* its onStatus callback updates
    \* what the last step did
    op,              \* the operation of the last step
    statusOut,       \* the onStatus calls of the last step, in order
    eventOut,        \* the onEvent calls of the last step, in order
    sentOut,         \* the envelopes sent in the last step
    settledOut,      \* the request promises settled in the last step
    \* history
    stopped,         \* stop() was called and start() has not been called since
    stopHadWs,       \* ... and some such stop() found a transport
    stopHadTimer,    \* ... and some such stop() found the timer armed with no transport
    abandoned,       \* ids that were pending when stop() cleared the map
    challenged,      \* live transports that have delivered a connect.challenge
    savedFor,        \* the deviceId of the last save() of a token
    savedTokens      \* per role the token of the last save() since savedFor
                     \* changed, None when there was none

prog == <<ws, readyState, closeArgs, pending, connected,
          reconnectTimer, timers, connectSent, connectNonce, tokenFile>>
outs == <<op, statusOut, eventOut, sentOut, settledOut>>
hist == <<stopped, stopHadWs, stopHadTimer, abandoned>>
conf == <<token, identityFile, identity>>
saves == <<savedFor, savedTokens>>
vars == <<prog, outs, hist, challenged, conf, storeOp, built, state, saves>>

\* The fields of `this`, the sockets, the microtask queue (the settled results
\* _sendConnect awaits, in order) and the outputs of the running step, as one
\* value the methods below transform.
Cur ==
    [ws |-> ws, readyState |-> readyState, closeArgs |-> closeArgs,
     pending |-> pending, abandoned |-> abandoned,
     connected |-> connected, reconnectTimer |-> reconnectTimer,
     timers |-> timers, connectSent |-> connectSent,
     connectNonce |-> connectNonce, tokenFile |-> tokenFile,
     token |-> token, savedFor |-> savedFor, savedTokens |-> savedTokens,
     microtasks |-> <<>>,
     statusOut |-> <<>>, eventOut |-> <<>>, sentOut |-> <<>>,
     settledOut |-> <<>>, ret |-> None]

Becomes(v) ==
    \E s \in {v} :
    /\ ws' = s.ws
    /\ readyState' = s.readyState
    /\ closeArgs' = s.closeArgs
    /\ pending' = s.pending
    /\ connected' = s.connected
    /\ reconnectTimer' = s.reconnectTimer
    /\ timers' = s.timers
    /\ connectSent' = s.connectSent
    /\ connectNonce' = s.connectNonce
    /\ tokenFile' = s.tokenFile
    /\ savedFor' = s.savedFor
    /\ savedTokens' = s.savedTokens
    /\ statusOut' = s.statusOut
    /\ eventOut' = s.eventOut
    /\ sentOut' = s.sentOut
    /\ settledOut' = s.settledOut
    /\ UNCHANGED <<conf, storeOp, built, state>>

NoCall == [method |-> None, on |-> 0]

\* The operation of a step: its name, the chunk a 'message' step handled and
\* the transport that delivered it, the code and reason of a 'close' step,
\* what request() returned.
Op(name, on, msgs, info, result) ==
    [name |-> name, on |-> on, msgs |-> msgs, info |-> info, result |-> result]

\* A call of a store: its name, its arguments and what it returned
StoreOp(name, deviceId, role, tok, scopes, result) ==
    [name |-> name, deviceId |-> deviceId, role |-> role, token |-> tok,
     scopes |-> scopes, result |-> result]
NoStoreOp == StoreOp("none", None, None, None, NoScopes, None)

\* The state object of index.js:42-51, as far as onStatus touches it
FacadeState(gatewayConnected, gatewayConnectedSince, gatewayTotalConnectedMs, gatewayError) ==
    [gatewayConnected |-> gatewayConnected,
     gatewayConnectedSince |-> gatewayConnectedSince,
     gatewayTotalConnectedMs |-> gatewayTotalConnectedMs,
     gatewayError |-> gatewayError]
\* gatewayConnectedSince = null.  The readings of the clock are positive,
\* and the callback tests the field for truth, which takes 0 for null.
NoSince == 0
InitialState == FacadeState(FALSE, NoSince, 0, NoErr)

\* A call of buildDeviceAuthPayload(params) that returned payload
Built(params, payload) == [params |-> params, payload |-> payload]
NoBuilt == Built(None, None)

\* The history of the saves after save(deviceId, role, tok, ...)
Saved(for, tokens, deviceId, role, tok) ==
    IF tok \in {None, ""} THEN [for |-> for, tokens |-> tokens]
    ELSE [for |-> deviceId,
          tokens |-> [r \in Roles |->
                        IF r = role THEN tok
                        ELSE IF for = deviceId THEN tokens[r] ELSE None]]

\* The constructor with no identity file: the installation's first run
FirstRun == loadOrCreateIdentity(NoIdFile, [publicKeyPem |-> "pkA", privateKeyPem |-> "skA"])

\* The connection after the constructor
InitConn ==
    /\ ws = 0
    /\ readyState = [t \in Slots |-> "free"]
    /\ closeArgs = [t \in Slots |-> NoClose]
    /\ pending = [i \in Ids |-> NoCall]
    /\ connected = FALSE
    /\ reconnectTimer = FALSE
    /\ timers = 0
    /\ connectSent = FALSE
    /\ connectNonce = NullNonce
    /\ op = Op("new", 0, <<>>, NoClose, None)
    /\ statusOut = <<>>
    /\ eventOut = <<>>
    /\ sentOut = <<>>
    /\ settledOut = <<>>
    /\ stopped = FALSE
    /\ stopHadWs = FALSE
    /\ stopHadTimer = FALSE
    /\ abandoned = {}
    /\ challenged = {}

\* The shared secret the instance is configured with
SharedSecret == "s3cret"

\* The instance after the constructor, on the installation's first run
Init ==
    /\ InitConn
    /\ tokenFile = NoFile
    /\ token = SharedSecret
    /\ identityFile = FirstRun.file
    /\ identity = FirstRun.identity
    /\ storeOp = NoStoreOp
    /\ built = NoBuilt
    /\ state = InitialState
    /\ savedFor = None
    /\ savedTokens = [r \in Roles |-> None]

-----------------------------------------------------------------------------
(* The WebSocket library, as far as GatewayWs uses it *)

\* readyState used by request() (gatewayWs.js:198)
IsOpen(s, t) == t # 0 /\ s.readyState[t] = "open"

\* A transport that has been created and has not delivered its close event.
Live(rs) == {t \in Slots : rs[t] # "free"}

\* WebSocket.close(code, reason) on the transport in slot t: a connecting
\* socket aborts its handshake, an open one starts the closing handshake,
\* and a socket already closing or failed ignores the call.  The close event follows
\* later, in a macrotask of its own.
wsClose(s, t, info) ==
    IF s.readyState[t] = "connecting"
    THEN [s EXCEPT !.readyState[t] = "aborting"]
    ELSE IF s.readyState[t] = "open"
    THEN [s EXCEPT !.readyState[t] = "closing", !.closeArgs[t] = info]
    ELSE s

\* this.ws?.close(code, reason)
closeThis(s, info) == IF s.ws = 0 THEN s ELSE wsClose(s, s.ws, info)

\* The close events a transport can deliver: 1006 when the connection is
\* lost or the opening handshake fails or is aborted, the echoed code and
\* reason of close() when the closing handshake completes.
CloseInfos(rs, ca) ==
    IF rs \in {"connecting", "aborting"} THEN {CloseInfo(1006, "")}
    ELSE IF rs = "open" THEN {CloseInfo(1006, "")}
    ELSE {CloseInfo(1006, ""), ca}

-----------------------------------------------------------------------------
(* GatewayWs *)

\* The ids of the entries of this.pending
Keys(p) == {i \in Ids : p[i] # NoCall}

\* rid(): a random hex string joined with the clock, taken to differ from
\* every id still in use.  The gateway may answer with any id at any time, so
\* giving a settled request's id to a later request adds no behaviour.
UsedIds(s) == Keys(s.pending) \cup s.abandoned
HasId(s) == UsedIds(s) # Ids
rid(s) == CHOOSE i \in Ids \ UsedIds(s) : \A j \in Ids \ UsedIds(s) : i <= j

\* new WebSocket(url): the lowest free slot
FreeSlot(s) == CHOOSE t \in Slots : s.readyState[t] = "free" /\
                  \A u \in Slots : s.readyState[u] = "free" => t <= u
CanConnect(s) == \E t \in Slots : s.readyState[t] = "free"

\* _connect(): creates a transport, stores it in this.ws and registers the
\* handlers OnOpen, OnMessage, OnClose and OnError on it.
_connect(s) ==
    LET t == FreeSlot(s) IN
    [s EXCEPT !.ws = t, !.readyState[t] = "connecting", !.closeArgs[t] = NoClose]

\* _scheduleReconnect() without its guard (mutant)
scheduleReconnectUnguarded(s) ==
    [s EXCEPT !.reconnectTimer = TRUE, !.timers = @ + 1]

\* _scheduleReconnect()
_scheduleReconnect(s) ==
    IF s.reconnectTimer THEN s
    ELSE [s EXCEPT !.reconnectTimer = TRUE, !.timers = @ + 1]

\* start()
start(s) == IF s.ws # 0 THEN s ELSE _connect(s)

\* stop() that leaves this.pending as it is (mutant)
stopKeepsPending(s) ==
    LET s1 == [s EXCEPT !.timers = IF s.reconnectTimer THEN @ - 1 ELSE @,
                        !.reconnectTimer = FALSE]
        s2 == closeThis(s1, CloseInfo(1005, ""))
    IN [s2 EXCEPT !.ws = 0, !.connected = FALSE, !.connectSent = FALSE,
                  !.connectNonce = NullNonce]

\* stop() that also removes the token file (mutant)
stopForgetsTokens(s) ==
    LET s1 == [s EXCEPT !.timers = IF s.reconnectTimer THEN @ - 1 ELSE @,
                        !.reconnectTimer = FALSE]
        s2 == closeThis(s1, CloseInfo(1005, ""))
    IN [s2 EXCEPT !.ws = 0, !.connected = FALSE, !.connectSent = FALSE,
                  !.connectNonce = NullNonce,
                  !.pending = [i \in Ids |-> NoCall],
                  !.tokenFile = NoFile]

\* stop()
stop(s) ==
    LET s1 == [s EXCEPT !.timers = IF s.reconnectTimer THEN @ - 1 ELSE @,
                        !.reconnectTimer = FALSE]
        s2 == closeThis(s1, CloseInfo(1005, ""))
    IN [s2 EXCEPT !.ws = 0, !.connected = FALSE, !.connectSent = FALSE,
                  !.connectNonce = NullNonce,
                  !.pending = [i \in Ids |-> NoCall]]

\* request() that queues the request when the transport is not open (mutant)
requestQueues(s, method, params) ==
    IF ~HasId(s)
    THEN [s EXCEPT !.ret = "rejected"]
    ELSE LET id == rid(s) IN
         [s EXCEPT !.ret = "pending",
                   !.pending[id] = [method |-> method, on |-> s.ws],
                   !.sentOut = IF IsOpen(s, s.ws)
                               THEN Append(@, [on |-> s.ws, id |-> id,
                                               method |-> method, params |-> params])
                               ELSE @]

\* request() that sends its envelope twice (mutant)
requestTwice(s, method, params) ==
    IF ~IsOpen(s, s.ws)
    THEN [s EXCEPT !.ret = "rejected"]
    ELSE LET id == rid(s)
             envelope == [on |-> s.ws, id |-> id, method |-> method, params |-> params]
         IN [s EXCEPT !.ret = "pending",
                      !.pending[id] = [method |-> method, on |-> s.ws],
                      !.sentOut = Append(Append(@, envelope), envelope)]

\* request(method, params) when rid() returns id, whatever id is
requestWith(s, method, params, id) ==
    IF ~IsOpen(s, s.ws)
    THEN [s EXCEPT !.ret = "rejected"]
    ELSE [s EXCEPT !.ret = "pending",
                   !.pending[id] = [method |-> method, on |-> s.ws],
                   !.sentOut = Append(@, [on |-> s.ws, id |-> id,
                                           method |-> method, params |-> params])]

\* request(method, params): ret is "rejected" (with 'gateway not connected')
\* or "pending".
request(s, method, params) ==
    IF ~IsOpen(s, s.ws)
    THEN [s EXCEPT !.ret = "rejected"]
    ELSE LET id == rid(s) IN
         [s EXCEPT !.ret = "pending",
                   !.pending[id] = [method |-> method, on |-> s.ws],
                   !.sentOut = Append(@, [on |-> s.ws, id |-> id,
                                           method |-> method, params |-> params])]

\* Entry id leaves this.pending and its promise is settled; when
\* _sendConnect awaits the promise, its continuation is queued.
settle(s, id, result) ==
    [s EXCEPT !.pending[id] = NoCall,
              !.settledOut = Append(@, [id |-> id, result |-> result]),
              !.microtasks = IF s.pending[id].method = "connect"
                             THEN Append(@, result) ELSE @]

\* Array.prototype.join
RECURSIVE join(_, _)
join(seq, sep) ==
    IF seq = <<>> THEN ""
    ELSE IF Len(seq) = 1 THEN seq[1]
    ELSE seq[1] \o sep \o join(Tail(seq), sep)

\* The argument of buildDeviceAuthPayload(); version, token and nonce are
\* None when they are absent.
PayloadParams(version, deviceId, clientId, clientMode, role, scopes, signedAtMs, tok, nonce) ==
    [version |-> version, deviceId |-> deviceId, clientId |-> clientId,
     clientMode |-> clientMode, role |-> role, scopes |-> scopes,
     signedAtMs |-> signedAtMs, token |-> tok, nonce |-> nonce]

\* buildDeviceAuthPayload() that appends the nonce whatever the version
\* (mutant)
buildPayloadWithNonce(params) ==
    LET version == IF params.version \in {None, ""} THEN "v2" ELSE params.version
        scopes == join(params.scopes, ",")
        tok == IF params.token \in {None, ""} THEN "" ELSE params.token
        nonce == IF params.nonce \in {None, ""} THEN "" ELSE params.nonce
        base == <<version, params.deviceId, params.clientId, params.clientMode,
                  params.role, scopes, ToString(params.signedAtMs), tok>>
    IN join(Append(base, nonce), "|")

\* buildDeviceAuthPayload(params): the string that is signed
buildDeviceAuthPayload(params) ==
    LET version == IF params.version \in {None, ""} THEN "v2" ELSE params.version
        scopes == join(params.scopes, ",")
        tok == IF params.token \in {None, ""} THEN "" ELSE params.token
        nonce == IF params.nonce \in {None, ""} THEN "" ELSE params.nonce
        base == <<version, params.deviceId, params.clientId, params.clientMode,
                  params.role, scopes, ToString(params.signedAtMs), tok>>
    IN join(IF version = "v2" THEN Append(base, nonce) ELSE base, "|")

\* signDevicePayload(privateKeyPem, payload): the signature, as the key and
\* the text it was made of
signDevicePayload(privateKeyPem, payload) ==
    [privateKeyPem |-> privateKeyPem, payload |-> payload]
NoSignature == signDevicePayload(None, "")

\* The params of a connect request, as far as they vary: client.id,
\* client.mode, role, scopes, device.id, device.signedAt, device.nonce,
\* device.signature and auth.token (None when auth is left out).
\* NoParams: the params of a caller's request.
Params(clientId, clientMode, role, scopes, deviceId, signedAt, nonce, signature, auth) ==
    [clientId |-> clientId, clientMode |-> clientMode, role |-> role,
     scopes |-> scopes, deviceId |-> deviceId, signedAt |-> signedAt,
     nonce |-> nonce, signature |-> signature, auth |-> auth]
NoParams == Params(None, None, None, <<>>, None, 0, NullNonce, NoSignature, None)

\* The connect request _sendConnect() builds with a nonce and a bearer token
\* (gatewayWs.js:214-267)
ConnectParams(nonce, bearer) ==
    LET role == "operator"
        scopes == RequestedScopes
        clientId == "openclaw-control-ui"
        clientMode == "webchat"
        auth == IF bearer \notin {None, ""} THEN bearer ELSE None
        signedAtMs == Now
        payload == buildDeviceAuthPayload(
                       PayloadParams("v2", DeviceId, clientId, clientMode, role,
                                     scopes, signedAtMs,
                                     IF bearer \in {None, ""} THEN "" ELSE bearer,
                                     nonce))
    IN Params(clientId, clientMode, role, scopes, DeviceId, signedAtMs, nonce,
              signDevicePayload(FirstRun.identity.privateKeyPem, payload), auth)

\* _sendConnect() that presents the stored device token as the bearer token
\* when the store holds one (mutant)
sendConnectStoredToken(s) ==
    IF s.connectSent THEN s
    ELSE
      LET s1 == [s EXCEPT !.connectSent = TRUE]
          stored == load(s.tokenFile, DeviceId, "operator")
          bearer == IF stored # None THEN stored ELSE s.token
          nonce == IF s.connectNonce \notin {NullNonce, ""}
                   THEN s.connectNonce ELSE NullNonce
      IN IF nonce = NullNonce
         THEN closeThis(
                [s1 EXCEPT !.connected = FALSE,
                           !.statusOut = Append(@, Status(FALSE, None,
                               Err("missing connect.challenge nonce", 0, None), 0, None))],
                CloseInfo(4000, "missing nonce"))
         ELSE LET s2 == request(s1, "connect", ConnectParams(nonce, bearer)) IN
              IF s2.ret = "rejected"
              THEN [s2 EXCEPT !.microtasks =
                       Append(@, Rejected(Err("gateway not connected", 0, None)))]
              ELSE s2

\* _sendConnect() up to its await
_sendConnect(s) ==
    IF s.connectSent THEN s
    ELSE
      LET s1 == [s EXCEPT !.connectSent = TRUE]
          nonce == IF s.connectNonce \notin {NullNonce, ""}
                   THEN s.connectNonce ELSE NullNonce
      IN IF nonce = NullNonce
         THEN closeThis(
                [s1 EXCEPT !.connected = FALSE,
                           !.statusOut = Append(@, Status(FALSE, None,
                               Err("missing connect.challenge nonce", 0, None), 0, None))],
                CloseInfo(4000, "missing nonce"))
         ELSE LET s2 == request(s1, "connect", ConnectParams(nonce, s.token)) IN
              IF s2.ret = "rejected"
              THEN [s2 EXCEPT !.microtasks =
                       Append(@, Rejected(Err("gateway not connected", 0, None)))]
              ELSE s2

\* a continuation that always stores the requested scopes (mutant)
sendConnectSettledRequested(s, r) ==
    IF r.ok
    THEN LET issuedToken == r.payload.deviceToken
             saved == Saved(s.savedFor, s.savedTokens, DeviceId, "operator", issuedToken)
         IN [s EXCEPT !.tokenFile = IF issuedToken \notin {None, ""}
                                    THEN save(@, DeviceId, "operator", issuedToken,
                                              RequestedScopes)
                                    ELSE @,
                      !.savedFor = saved.for, !.savedTokens = saved.tokens,
                      !.connected = TRUE, !.connectNonce = NullNonce,
                      !.statusOut = Append(@, Status(TRUE, None, NoErr, 0, None))]
    ELSE closeThis(
           [s EXCEPT !.connected = FALSE,
                     !.statusOut = Append(@, Status(FALSE, None, r.error, 0, None))],
           CloseInfo(4000, "connect failed"))

\* _sendConnect() after its await: r is the settled result of the request
sendConnectSettled(s, r) ==
    IF r.ok
    THEN LET issuedToken == r.payload.deviceToken
             scopes == IF r.payload.scopes # NoScopes THEN r.payload.scopes
                       ELSE RequestedScopes
             saved == Saved(s.savedFor, s.savedTokens, DeviceId, "operator", issuedToken)
         IN [s EXCEPT !.tokenFile = IF issuedToken \notin {None, ""}
                                    THEN save(@, DeviceId, "operator", issuedToken, scopes)
                                    ELSE @,
                      !.savedFor = saved.for, !.savedTokens = saved.tokens,
                      !.connected = TRUE, !.connectNonce = NullNonce,
                      !.statusOut = Append(@, Status(TRUE, None, NoErr, 0, None))]
    ELSE closeThis(
           [s EXCEPT !.connected = FALSE,
                     !.statusOut = Append(@, Status(FALSE, None, r.error, 0, None))],
           CloseInfo(4000, "connect failed"))

\* the 'open' handler
onOpen(s) ==
    [s EXCEPT !.statusOut = Append(@, Status(FALSE, "ws-open", NoErr, 0, None)),
              !.connectSent = FALSE, !.connectNonce = NullNonce]

\* a 'message' handler that takes a response to answer the oldest pending
\* request, whatever its id (mutant)
onMessageInOrder(s, msg) ==
    IF msg.type = "event"
    THEN IF msg.event = "connect.challenge"
         THEN _sendConnect([s EXCEPT !.connectNonce = msg.nonce,
                                     !.connectSent = FALSE])
         ELSE [s EXCEPT !.eventOut = Append(@, msg)]
    ELSE IF msg.type = "res"
    THEN IF Keys(s.pending) = {} THEN s
         ELSE settle(s, CHOOSE i \in Keys(s.pending) :
                            \A j \in Keys(s.pending) : i <= j,
                     IF msg.ok THEN Resolved(msg.payload)
                     ELSE Rejected(Err(IF msg.error # None THEN msg.error
                                       ELSE "request failed", 0, None)))
    ELSE s

\* a 'message' handler that forwards events only once connected (mutant)
onMessageWhenConnected(s, msg) ==
    IF msg.type = "event"
    THEN IF msg.event = "connect.challenge"
         THEN _sendConnect([s EXCEPT !.connectNonce = msg.nonce,
                                     !.connectSent = FALSE])
         ELSE IF s.connected THEN [s EXCEPT !.eventOut = Append(@, msg)] ELSE s
    ELSE IF msg.type = "res"
    THEN IF msg.id \notin Keys(s.pending) THEN s
         ELSE settle(s, msg.id,
                     IF msg.ok THEN Resolved(msg.payload)
                     ELSE Rejected(Err(IF msg.error # None THEN msg.error
                                       ELSE "request failed", 0, None)))
    ELSE s

\* the 'message' handler
onMessage(s, msg) ==
    IF msg.type = "event"
    THEN IF msg.event = "connect.challenge"
         THEN _sendConnect([s EXCEPT !.connectNonce = msg.nonce,
                                     !.connectSent = FALSE])
         ELSE [s EXCEPT !.eventOut = Append(@, msg)]
    ELSE IF msg.type = "res"
    THEN IF msg.id \notin Keys(s.pending) THEN s
         ELSE settle(s, msg.id,
                     IF msg.ok THEN Resolved(msg.payload)
                     ELSE Rejected(Err(IF msg.error # None THEN msg.error
                                       ELSE "request failed", 0, None)))
    ELSE s

\* a loop that stops after the first entry (mutant)
rejectFirstPending(s, i, err) ==
    IF Keys(s.pending) = {} THEN s
    ELSE settle(s, CHOOSE k \in Keys(s.pending) : \A j \in Keys(s.pending) : k <= j,
                Rejected(err))

\* the loop of the 'close' handler over this.pending, in insertion order
RECURSIVE rejectPending(_, _, _)
rejectPending(s, i, err) ==
    IF i > MaxIds THEN s
    ELSE rejectPending(
           IF i \in Keys(s.pending) THEN settle(s, i, Rejected(err)) ELSE s,
           i + 1, err)

\* a 'close' handler that arms no timer (mutant)
onCloseNoReconnect(s, info) ==
    LET s1 == [s EXCEPT !.ws = 0, !.connected = FALSE, !.connectSent = FALSE,
                        !.connectNonce = NullNonce]
        s2 == rejectPending(s1, 1, Err("gateway closed", info.code, info.reason))
    IN [s2 EXCEPT !.statusOut =
           Append(@, Status(FALSE, None, NoErr, info.code, info.reason))]

\* the 'close' handler
onClose(s, info) ==
    LET s1 == [s EXCEPT !.ws = 0, !.connected = FALSE, !.connectSent = FALSE,
                        !.connectNonce = NullNonce]
        s2 == rejectPending(s1, 1, Err("gateway closed", info.code, info.reason))
        s3 == [s2 EXCEPT !.statusOut =
                  Append(@, Status(FALSE, None, NoErr, info.code, info.reason))]
    IN _scheduleReconnect(s3)

\* the callback of the reconnect timer
onTimer(s) == _connect([s EXCEPT !.reconnectTimer = FALSE, !.timers = @ - 1])


-----------------------------------------------------------------------------
(* Actions: the macrotasks of the execution context.  Each runs a handler   *)
(* or an entry point and then the microtasks it queued.                    *)

\* the microtask queue is drained when the macrotask returns
RECURSIVE drain(_)
drain(s) ==
    IF s.microtasks = <<>> THEN s
    ELSE drain(sendConnectSettled([s EXCEPT !.microtasks = Tail(@)],
                                  Head(s.microtasks)))

\* the 'message' handler on each message of a chunk, in order
RECURSIVE onChunk(_, _)
onChunk(s, msgs) ==
    IF msgs = <<>> THEN s ELSE onChunk(onMessage(s, Head(msgs)), Tail(msgs))

\* the caller calls start()
Start ==
    /\ ws = 0 => CanConnect(Cur)
    /\ Becomes(drain(start(Cur)))
    /\ op' = Op("start", 0, <<>>, NoClose, None)
    /\ stopped' = FALSE
    /\ stopHadWs' = FALSE
    /\ stopHadTimer' = FALSE
    /\ UNCHANGED <<abandoned, challenged>>

\* the caller calls stop()
Stop ==
    /\ Becomes(drain(stop(Cur)))
    /\ op' = Op("stop", 0, <<>>, NoClose, None)
    /\ stopped' = TRUE
    /\ stopHadWs' = (stopHadWs \/ ws # 0)
    /\ stopHadTimer' = (stopHadTimer \/ (ws = 0 /\ reconnectTimer))
    /\ abandoned' = abandoned \cup Keys(pending)
    /\ UNCHANGED challenged

\* the caller (the poller, the HTTP facade) calls request()
Request(method) ==
    /\ IsOpen(Cur, ws) => HasId(Cur)
    /\ \E s \in {request(Cur, method, NoParams)} :
       /\ Becomes(drain(s))
       /\ op' = Op("request", 0, <<>>, NoClose, s.ret)
    /\ UNCHANGED <<hist, challenged>>

\* the transport in slot t emits 'open'
OpenEvent(t) ==
    /\ readyState[t] = "connecting"
    /\ Becomes(drain(onOpen([Cur EXCEPT !.readyState[t] = "open"])))
    /\ op' = Op("open", 0, <<>>, NoClose, None)
    /\ UNCHANGED <<hist, challenged>>

\* The messages the gateway sends: any challenge, any event, garbage, any
\* response to a pending id, and one response to one id that is not pending
\* (the handler reads nothing but the id of such a response).
Inbound(M, p) ==
    {m \in M : m.type = "res" =>
        \/ m.id \in Keys(p)
        \/ /\ m.id \notin Keys(p)
           /\ \A j \in Ids \ Keys(p) : m.id <= j
           /\ m.ok /\ m.payload = NoPayload}

\* every request a chunk registers gets an id
RECURSIVE EnoughIds(_, _)
EnoughIds(s, msgs) ==
    IF msgs = <<>> THEN TRUE
    ELSE LET m == Head(msgs) IN
         /\ (m \in ChallengeMsgs /\ m.nonce \in Nonces /\ IsOpen(s, s.ws)) => HasId(s)
         /\ EnoughIds(onMessage(s, m), Tail(msgs))

\* A chunk of several messages differs from the same messages in chunks of
\* their own only when its first message queues a continuation.
Chunks(M, s) ==
    {<<m>> : m \in Inbound(M, s.pending)} \cup
    UNION {{<<m>> \o rest : rest \in [1..n -> M]} :
              n \in 1..(MaxChunk - 1),
              m \in {x \in Inbound(M, s.pending) :
                        EnoughIds(s, <<x>>) /\ onMessage(s, x).microtasks # <<>>}}

\* the transport in slot t emits 'message' for each message of a chunk
MessageEvent(t, msgs) ==
    /\ readyState[t] \in {"open", "closing"}
    /\ \E s \in {Cur} :
       /\ EnoughIds(s, msgs)
       /\ Becomes(drain(onChunk(s, msgs)))
    /\ op' = Op("message", t, msgs, NoClose, None)
    /\ challenged' = IF \E m \in Range(msgs) : m \in ChallengeMsgs
                     THEN challenged \cup {t} ELSE challenged
    /\ UNCHANGED hist

\* the transport in slot t emits 'close'
CloseEvent(t, info) ==
    /\ readyState[t] # "free"
    /\ Becomes(drain(onClose([Cur EXCEPT !.readyState[t] = "free",
                                         !.closeArgs[t] = NoClose], info)))
    /\ op' = Op("close", 0, <<>>, info, None)
    /\ challenged' = challenged \ {t}
    /\ UNCHANGED hist

\* The transport in slot t emits 'error': the connection could not be made,
\* and the close event (1006) follows.  The handler is empty.  (The failure
\* of an established connection is the close event with 1006.)
ErrorEvent(t) ==
    /\ readyState[t] = "connecting"
    /\ Becomes(drain([Cur EXCEPT !.readyState[t] = "aborting"]))
    /\ op' = Op("error", 0, <<>>, NoClose, None)
    /\ UNCHANGED <<hist, challenged>>

\* an armed reconnect timer fires
TimerFire ==
    /\ timers > 0
    /\ CanConnect(Cur)
    /\ Becomes(drain(onTimer(Cur)))
    /\ op' = Op("timer", 0, <<>>, NoClose, None)
    /\ UNCHANGED <<hist, challenged>>

Next ==
    \/ Start
    \/ Stop
    \/ \E m \in UserMethods : Request(m)
    \/ \E t \in Slots : OpenEvent(t)
    \/ \E msgs \in Chunks(Messages, Cur) : \E t \in Slots : MessageEvent(t, msgs)
    \/ \E t \in Slots : \E info \in CloseInfos(readyState[t], closeArgs[t]) :
          CloseEvent(t, info)
    \/ \E t \in Slots : ErrorEvent(t)
    \/ TimerFire

Spec == Init /\ [][Next]_vars

\* The same instance, connected to a gateway that issues device tokens
NextTokens ==
    \/ Start
    \/ Stop
    \/ \E m \in UserMethods : Request(m)
    \/ \E t \in Slots : OpenEvent(t)
    \/ \E msgs \in Chunks(TokenMessages, Cur) : \E t \in Slots : MessageEvent(t, msgs)
    \/ \E t \in Slots : \E info \in CloseInfos(readyState[t], closeArgs[t]) :
          CloseEvent(t, info)
    \/ \E t \in Slots : ErrorEvent(t)
    \/ TimerFire

SpecTokens == Init /\ [][NextTokens]_vars

\* The connection when nobody calls stop(), as in src/server/index.js, with
\* the guarantees of the runtime: an armed timer fires, and a transport that
\* was closed or has failed delivers its close event.  The requests of
\* callers, which neither open nor close a transport, are left out.
NextLive ==
    \/ Start
    \/ \E t \in Slots : OpenEvent(t)
    \/ \E msgs \in Chunks(LiveMessages, Cur) : \E t \in Slots : MessageEvent(t, msgs)
    \/ \E t \in Slots : \E info \in CloseInfos(readyState[t], closeArgs[t]) :
          CloseEvent(t, info)
    \/ \E t \in Slots : ErrorEvent(t)
    \/ TimerFire

ClosedCloses(t) ==
    /\ readyState[t] \in {"closing", "aborting"}
    /\ \E info \in CloseInfos(readyState[t], closeArgs[t]) : CloseEvent(t, info)

SpecLive ==
    /\ Init /\ [][NextLive]_vars
    /\ WF_vars(TimerFire)
    /\ \A t \in Slots : WF_vars(ClosedCloses(t))

\* The caller calls request() and rid() returns id: the random digits and
\* the clock of rid() are inputs, and nothing compares their result with the
\* ids in this.pending.
RequestWith(method, id) ==
    /\ \E s \in {requestWith(Cur, method, NoParams, id)} :
       /\ Becomes(drain(s))
       /\ op' = Op("request", 0, <<>>, NoClose, s.ret)
    /\ UNCHANGED <<hist, challenged>>

NextRid ==
    \/ Start
    \/ \E m \in UserMethods, id \in Ids : RequestWith(m, id)
    \/ \E t \in Slots : OpenEvent(t)
    \/ \E msgs \in Chunks(LiveMessages, Cur) : \E t \in Slots : MessageEvent(t, msgs)
    \/ \E t \in Slots : \E info \in CloseInfos(readyState[t], closeArgs[t]) :
          CloseEvent(t, info)
    \/ \E t \in Slots : ErrorEvent(t)
    \/ TimerFire

\* The connection when rid() can return any id
SpecRid == Init /\ [][NextRid]_vars

-----------------------------------------------------------------------------
(* The stores on their own: any caller, any arguments *)

conn == <<ws, readyState, closeArgs, pending, connected,
          reconnectTimer, timers, connectSent, connectNonce>>

\* the caller calls save(deviceId, role, tok, scopes) of the token store
Save(deviceId, role, tok, scopes) ==
    /\ tokenFile' = save(tokenFile, deviceId, role, tok, scopes)
    /\ storeOp' = StoreOp("save", deviceId, role, tok, scopes, None)
    /\ \E h \in {Saved(savedFor, savedTokens, deviceId, role, tok)} :
          savedFor' = h.for /\ savedTokens' = h.tokens
    /\ UNCHANGED <<conn, outs, hist, challenged, conf, built, state>>

\* the caller calls load(deviceId, role) of the token store
Load(deviceId, role) ==
    /\ storeOp' = StoreOp("load", deviceId, role, None, NoScopes,
                          load(tokenFile, deviceId, role))
    /\ UNCHANGED <<prog, outs, hist, challenged, conf, built, state, saves>>

\* The token store before its first call: the file is absent or is not a
\* container
InitStore ==
    /\ InitConn
    /\ tokenFile \in {NoFile, Unreadable}
    /\ token = SharedSecret
    /\ identityFile = FirstRun.file
    /\ identity = FirstRun.identity
    /\ storeOp = NoStoreOp
    /\ built = NoBuilt
    /\ state = InitialState
    /\ savedFor = None
    /\ savedTokens = [r \in Roles |-> None]

NextStore ==
    \/ \E d \in DeviceIds, r \in Roles, tok \in Tokens \cup {""}, sc \in ScopeLists :
          Save(d, r, tok, sc)
    \/ \E d \in DeviceIds, r \in Roles : Load(d, r)

SpecStore == InitStore /\ [][NextStore]_vars

\* _write(): writeFileSync(path, data, {mode}) opens the file itself for
\* writing, which empties it, and then writes the data into it.  The content
\* another process reads, or that stays when the process is killed, after
\* `written` of the three steps (nothing, the open, the whole data).
_write(file, next, written) ==
    IF written = 0 THEN file
    ELSE IF written = 1 THEN Unreadable
    ELSE next

\* The process is killed during save(deviceId, role, tok, scopes), or the
\* file is read by another process during it.
SaveInterrupted(deviceId, role, tok, scopes, written) ==
    /\ tok # ""
    /\ tokenFile' = _write(tokenFile, save(tokenFile, deviceId, role, tok, scopes),
                            written)
    /\ storeOp' = StoreOp("save", deviceId, role, tok, scopes, "interrupted")
    /\ \E h \in {IF written = 2
                  THEN Saved(savedFor, savedTokens, deviceId, role, tok)
                  ELSE [for |-> savedFor, tokens |-> savedTokens]} :
          savedFor' = h.for /\ savedTokens' = h.tokens
    /\ UNCHANGED <<conn, outs, hist, challenged, conf, built, state>>

\* The scopes play no part in the write: one list stands for all
NextCrash ==
    \/ \E d \in DeviceIds, r \in Roles, tok \in Tokens \cup {""} :
          Save(d, r, tok, RequestedScopes)
    \/ \E d \in DeviceIds, r \in Roles : Load(d, r)
    \/ \E d \in DeviceIds, r \in Roles, tok \in Tokens, written \in 0..2 :
          SaveInterrupted(d, r, tok, RequestedScopes, written)

\* The token store when a save() can be interrupted
SpecCrash == InitStore /\ [][NextCrash]_vars

\* A process calls loadOrCreateIdentity(): the constructor of GatewayWs, on
\* each start of the dashboard
LoadOrCreateIdentity(pair) ==
    /\ \E r \in {loadOrCreateIdentity(identityFile, pair)} :
          /\ identityFile' = r.file
          /\ identity' = r.identity
          /\ storeOp' = StoreOp("loadOrCreateIdentity", None, None, None, NoScopes,
                                IF r.threw THEN "threw" ELSE "returned")
    /\ UNCHANGED <<prog, outs, hist, challenged, token, built, state, saves>>

\* The identity store before the constructor: any identity file
InitIdentity ==
    /\ InitConn
    /\ tokenFile = NoFile
    /\ token = SharedSecret
    /\ identityFile \in IdFiles
    /\ identity = NoIdentity
    /\ storeOp = NoStoreOp
    /\ built = NoBuilt
    /\ state = InitialState
    /\ savedFor = None
    /\ savedTokens = [r \in Roles |-> None]

NextIdentity == \E pair \in KeyPairs : LoadOrCreateIdentity(pair)

SpecIdentity == InitIdentity /\ [][NextIdentity]_vars

\* loadOrCreateIdentity() when writeFileSync() can throw before it has
\* touched the file (the file cannot be opened for writing): `repair` and
\* `create` tell whether the write of the repair and the write of a generated
\* record succeed.  The repair is written inside the try block
\* (gatewayWs.js:80): when it throws the catch swallows it and a new identity
\* is generated.  The write of the generated record (102-106) is outside:
\* when it throws the call throws.
loadOrCreateIdentityWrites(file, pair, repair, create) ==
    LET r == loadIdentity(file) IN
    IF ~r.threw /\ r.identity # NoIdentity /\ (r.file = file \/ repair) THEN r
    ELSE IF create THEN createIdentity(pair)
    ELSE IdResult(file, NoIdentity, TRUE)

\* A process calls loadOrCreateIdentity(), and its writes succeed as
\* `repair` and `create` tell
LoadOrCreateIdentityWrites(pair, repair, create) ==
    /\ \E r \in {loadOrCreateIdentityWrites(identityFile, pair, repair, create)} :
          /\ identityFile' = r.file
          /\ identity' = r.identity
          /\ storeOp' = StoreOp("loadOrCreateIdentity", None, None, None, NoScopes,
                                IF r.threw THEN "threw" ELSE "returned")
    /\ UNCHANGED <<prog, outs, hist, challenged, token, built, state, saves>>

NextIdentityWrites ==
    \E pair \in KeyPairs, repair \in BOOLEAN, create \in BOOLEAN :
        LoadOrCreateIdentityWrites(pair, repair, create)

\* The identity store on a file system whose writes can fail
SpecIdentityWrites == InitIdentity /\ [][NextIdentityWrites]_vars

-----------------------------------------------------------------------------
(* The handshake of an instance with any configuration, on a run that finds *)
(* any token file an earlier run left                                       *)

\* this.token: not configured (null), empty, or the shared secret
ConfiguredTokens == {None, "", SharedSecret}

\* The token files of earlier runs: none, a token for this device and role,
\* a token for another device
StoredFiles ==
    {NoFile,
     save(NoFile, DeviceId, "operator", "tkn1", RequestedScopes),
     save(NoFile, "dev2", "operator", "tkn2", RequestedScopes)}

InitAuth ==
    /\ InitConn
    /\ tokenFile \in StoredFiles
    /\ token \in ConfiguredTokens
    /\ identityFile = FirstRun.file
    /\ identity = FirstRun.identity
    /\ storeOp = NoStoreOp
    /\ built = NoBuilt
    /\ state = InitialState
    /\ savedFor = tokenFile.deviceId
    /\ savedTokens = [r \in Roles |-> tokenFile.tokens[r].token]

\* What the gateway sends during handshakes
AuthMessages ==
    {m \in ChallengeMsgs : m.nonce \in {"abc", NullNonce}}
    \cup ResMsgs({NoPayload, Hello("tkn1", NoScopes)}, {None})

NextAuth ==
    \/ Start
    \/ \E t \in Slots : OpenEvent(t)
    \/ \E t \in Slots : \E msgs \in Chunks(AuthMessages, Cur) : MessageEvent(t, msgs)
    \/ \E t \in Slots : \E info \in CloseInfos(readyState[t], closeArgs[t]) :
          CloseEvent(t, info)
    \/ \E t \in Slots : ErrorEvent(t)
    \/ TimerFire

SpecAuth == InitAuth /\ [][NextAuth]_vars

-----------------------------------------------------------------------------
(* The payload that is signed: buildDeviceAuthPayload() called with any     *)
(* argument, next to an instance that makes handshakes                      *)

\* The arguments: the version absent, v1 or v2; the token and the nonce
\* absent or given; no scope or the three scopes of the handshake
PayloadInputs ==
    {PayloadParams(version, DeviceId, "openclaw-control-ui", "webchat", "operator",
                   scopes, Now, tok, nonce) :
        version \in {None, "v1", "v2"}, scopes \in {<<>>, RequestedScopes},
        tok \in {None, SharedSecret}, nonce \in {None, "abc"}}

\* a caller calls buildDeviceAuthPayload(params)
BuildDeviceAuthPayload(params) ==
    /\ built' = Built(params, buildDeviceAuthPayload(params))
    /\ UNCHANGED <<prog, outs, hist, challenged, conf, storeOp, state, saves>>

\* What the gateway sends before a handshake
PayloadMessages == {m \in ChallengeMsgs : m.nonce = "abc"}

NextPayload ==
    \/ \E params \in PayloadInputs : BuildDeviceAuthPayload(params)
    \/ Start
    \/ \E t \in Slots : OpenEvent(t)
    \/ \E t \in Slots : \E msgs \in Chunks(PayloadMessages, Cur) : MessageEvent(t, msgs)
    \/ \E t \in Slots : \E info \in CloseInfos(readyState[t], closeArgs[t]) :
          CloseEvent(t, info)
    \/ \E t \in Slots : ErrorEvent(t)
    \/ TimerFire

SpecPayload == InitAuth /\ [][NextPayload]_vars

-----------------------------------------------------------------------------
(* The status tracking of the HTTP facade: its onStatus callback called     *)
(* with any notification at any reading of the clock                        *)

\* Readings of Date.now(), the wall clock: positive, and not monotonic (the
\* system time can be set back between two calls)
MaxNow == 4
Clock == 1..MaxNow

\* gatewayTotalConnectedMs stays within MaxTotalMs of zero
MaxTotalMs == 8

\* the onStatus callback of index.js:89-104, called with s when Date.now()
\* returns now
onStatus(st, s, now) ==
    LET nextConnected == s.connected
        st1 == IF nextConnected /\ ~st.gatewayConnected
               THEN [st EXCEPT !.gatewayConnectedSince = now]
               ELSE st
        st2 == IF /\ ~nextConnected /\ st1.gatewayConnected
                  /\ st1.gatewayConnectedSince # NoSince
               THEN [st1 EXCEPT !.gatewayTotalConnectedMs =
                                     @ + (now - st1.gatewayConnectedSince),
                                !.gatewayConnectedSince = NoSince]
               ELSE st1
    IN [st2 EXCEPT !.gatewayConnected = nextConnected,
                   !.gatewayError = s.error]

\* The notifications of GatewayWs: connected, the open of the transport, a
\* failed handshake, a close
Notifications ==
    {Status(TRUE, None, NoErr, 0, None),
     Status(FALSE, "ws-open", NoErr, 0, None),
     Status(FALSE, None, Err("denied", 0, None), 0, None),
     Status(FALSE, None, NoErr, 1006, "")}

\* the instance calls onStatus(s)
OnStatus(s, now) ==
    /\ state' = onStatus(state, s, now)
    /\ state'.gatewayTotalConnectedMs \in -MaxTotalMs..MaxTotalMs
    /\ statusOut' = <<s>>
    /\ UNCHANGED <<prog, op, eventOut, sentOut, settledOut, hist, challenged,
                   conf, storeOp, built, saves>>

NextFacade == \E s \in Notifications, now \in Clock : OnStatus(s, now)

SpecFacade == Init /\ [][NextFacade]_vars

-----------------------------------------------------------------------------
(* Properties *)

\* Transports that are connecting or open
Usable == {t \in Slots : readyState[t] \in {"connecting", "open"}}

\* C1: once stop() has been called while a transport existed, and until
\* start() is called again, no reconnect timer is armed and _connect() creates
\* no transport, whatever the old transport still delivers.
C1_NoReconnectAfterStop ==
    [][(stopped /\ stopHadWs /\ stopped') =>
          /\ ~reconnectTimer' /\ timers' = 0
          /\ Live(readyState') \subseteq Live(readyState)]_vars

\* C2: once stop() has been called while a transport existed, and until
\* start() is called again, no step calls onStatus or onEvent.
C2_NoCallbackAfterStop ==
    (stopped /\ stopHadWs) => (statusOut = <<>> /\ eventOut = <<>>)

\* C3: once stop() has been called with the transport closed and the reconnect
\* timer armed, and until start() is called again, no timer fires and no
\* connection attempt is made.
C3_StopCancelsTimer ==
    [][(stopped /\ stopHadTimer /\ stopped') =>
          /\ op'.name # "timer"
          /\ ~reconnectTimer' /\ timers' = 0
          /\ Live(readyState') \subseteq Live(readyState)]_vars

\* C4: at most one reconnect timer is armed, and it is the one
\* this._reconnectTimer holds; every close event leaves it armed; only its
\* firing or stop() disarms it; when it fires it has cleared itself and has
\* made exactly one connection attempt.
C4_SingleTimer ==
    /\ [](/\ timers <= 1
          /\ reconnectTimer <=> timers = 1
          /\ op.name = "close" => timers = 1
          /\ op.name = "timer" =>
                timers = 0 /\ ws # 0 /\ readyState[ws] = "connecting")
    /\ [][/\ timers' < timers => op'.name \in {"timer", "stop"}
          /\ op'.name = "timer" =>
                /\ timers = 1
                /\ Cardinality(Live(readyState')) = Cardinality(Live(readyState)) + 1]_vars

\* the timer armed by a close event has fired and has made its attempt
C4_Witness ==
    op.name = "timer" /\ timers = 0 /\ ws # 0 /\ readyState[ws] = "connecting"

\* C5: start() called while a transport of the instance is connecting or
\* open creates no transport, changes no field and calls nothing.
C5_StartIdempotent ==
    [][(op'.name = "start" /\ Usable # {}) =>
          /\ UNCHANGED prog
          /\ statusOut' = <<>> /\ eventOut' = <<>> /\ sentOut' = <<>>]_vars

\* C6: at most one transport of the instance is connecting or open.
C6_SingleTransport == Cardinality(Usable) <= 1

\* C7: request() without an open transport returns a rejection, registers no
\* pending entry and sends nothing, and the open event of a transport sends
\* nothing.
C7_NotConnected ==
    [][/\ (op'.name = "request" /\ ~IsOpen(Cur, ws)) =>
             /\ op'.result = "rejected"
             /\ pending' = pending
             /\ sentOut' = <<>> /\ settledOut' = <<>>
       /\ op'.name = "open" => (sentOut' = <<>> /\ pending' = pending)]_vars

\* request() was rejected while a transport existed that was not open
C7_Witness == op.name = "request" /\ op.result = "rejected" /\ ws # 0

\* The result a response settles its request with
ResultOf(m) ==
    IF m.ok THEN Resolved(m.payload)
    ELSE Rejected(Err(IF m.error = None THEN "request failed" ELSE m.error, 0, None))

\* C8: a response whose id is pending settles exactly that entry, with its
\* payload when ok and with the carried message or 'request failed' otherwise,
\* and leaves every other entry pending; a response whose id is not pending
\* settles nothing and leaves the pending map as it was.
C8_Correlation ==
    [][(op'.name = "message" /\ Len(op'.msgs) = 1 /\ op'.msgs[1].type = "res") =>
          LET m == op'.msgs[1] IN
          IF m.id \in Keys(pending)
          THEN /\ settledOut' = <<[id |-> m.id, result |-> ResultOf(m)]>>
               /\ pending' = [pending EXCEPT ![m.id] = NoCall]
          ELSE /\ settledOut' = <<>>
               /\ pending' = pending]_vars

\* with two requests outstanding, the response to the later one has arrived
\* first and has settled it; the earlier one is still pending
C8_Witness ==
    /\ op.name = "message"
    /\ Len(settledOut) = 1
    /\ settledOut[1].id = 2
    /\ Keys(pending) = {1}

\* C9: the close handler rejects every pending request with the 'gateway
\* closed' error built from the code and reason of the close event, and leaves
\* the pending map empty.
C9_CloseDrains ==
    [][op'.name = "close" =>
          /\ Keys(pending') = {}
          /\ Len(settledOut') = Cardinality(Keys(pending))
          /\ {r.id : r \in Range(settledOut')} = Keys(pending)
          /\ \A r \in Range(settledOut') :
                r.result = Rejected(Err("gateway closed", op'.info.code,
                                        op'.info.reason))]_vars

\* a close event found two requests outstanding
C9_Witness == op.name = "close" /\ Len(settledOut) = 2

\* C10: when stop() returns the pending map is empty, the handshake-sent flag
\* is false, the nonce is null, connected is false and no promise has been
\* settled; and no step ever settles a request that stop() dropped.
C10_StopAbandons ==
    /\ op.name = "stop" =>
          /\ Keys(pending) = {}
          /\ ~connectSent
          /\ connectNonce = NullNonce
          /\ ~connected
          /\ settledOut = <<>>
    /\ \A r \in Range(settledOut) : r.id \notin abandoned

\* the close event of the transport stop() closed has been handled, with a
\* request dropped by stop()
C10_Witness == op.name = "close" /\ stopped /\ abandoned # {}

\* The connect requests sent in the last step
ConnectsSent == {e \in Range(sentOut) : e.method = "connect"}

\* C11: the open event of a transport sends nothing, and a connect request is
\* sent only on a transport that has delivered a connect.challenge since it
\* opened.
C11_NoHandshakeBeforeChallenge ==
    /\ op.name = "open" => sentOut = <<>>
    /\ \A e \in ConnectsSent : e.on \in challenged

\* The message of a step that handled a chunk of one message
OneMsg(o) == o.name = "message" /\ Len(o.msgs) = 1

\* C12: when a connect.challenge arrives whose payload has no nonce or an
\* empty one, no request is sent or registered, onStatus is called once, with
\* connected:false and the missing-nonce error, and the transport that
\* delivered the challenge is no longer connecting or open.
C12_HandshakeGating ==
    [][(OneMsg(op') /\ op'.msgs[1] \in ChallengeMsgs /\ op'.msgs[1].nonce \notin Nonces) =>
          /\ sentOut' = <<>>
          /\ pending' = pending
          /\ statusOut' = <<Status(FALSE, None,
                               Err("missing connect.challenge nonce", 0, None), 0, None)>>
          /\ ~connected'
          /\ readyState'[op'.on] \notin {"connecting", "open"}]_vars

\* C13: a connect request is never sent on a transport on which an earlier
\* connect request of the same connection attempt is still outstanding, and
\* no step sends two connect requests on one transport.  (An entry of the
\* pending map was sent during the current attempt of its transport: every
\* close event and stop() empty the map.)
C13_OneHandshakePerAttempt ==
    /\ \A e \in ConnectsSent : \A i \in Keys(pending) \ {e.id} :
          ~(pending[i].method = "connect" /\ pending[i].on = e.on)
    /\ \A j, k \in DOMAIN sentOut :
          (j # k /\ sentOut[j].method = "connect" /\ sentOut[k].method = "connect")
             => sentOut[j].on # sentOut[k].on

\* C14: a step calls onStatus({connected:true}) only when it handles an ok
\* response whose id is that of a pending connect request, and that request
\* was sent on the transport this.ws refers to, which has delivered a
\* connect.challenge.
C14_ConnectedOnlyAfterHandshake ==
    [][(\E k \in DOMAIN statusOut' : statusOut'[k].connected) =>
          /\ op'.name = "message"
          /\ \E m \in Range(op'.msgs) :
                /\ m.type = "res" /\ m.ok
                /\ pending[m.id].method = "connect"
                /\ ws' # 0
                /\ pending[m.id].on = ws'
                /\ ws' \in challenged']_vars

\* C15: when an ok response settles a pending connect request and carries a
\* non-empty auth.deviceToken, then afterwards load(deviceId, 'operator')
\* returns that token, the stored entry has the role 'operator' and exactly
\* the granted scopes (the requested scopes when the response carries none),
\* and the captured nonce is null.
C15_TokenSaved ==
    [][(/\ OneMsg(op') /\ op'.msgs[1].type = "res" /\ op'.msgs[1].ok
        /\ pending[op'.msgs[1].id].method = "connect"
        /\ op'.msgs[1].payload.deviceToken \notin {None, ""}) =>
          LET hello == op'.msgs[1].payload IN
          /\ load(tokenFile', DeviceId, "operator") = hello.deviceToken
          /\ tokenFile'.deviceId = DeviceId
          /\ tokenFile'.tokens["operator"].role = "operator"
          /\ Range(tokenFile'.tokens["operator"].scopes) =
                Range(IF hello.scopes # NoScopes THEN hello.scopes
                      ELSE RequestedScopes)
          /\ connectNonce' = NullNonce]_vars

\* a handshake has succeeded with a response that granted two scopes, after
\* an earlier one had stored the three requested scopes
C15_Witness ==
    /\ OneMsg(op) /\ op.msgs[1].type = "res"
    /\ op.msgs[1].payload = Hello("tkn1", GrantedScopes)
    /\ connected
    /\ load(tokenFile, DeviceId, "operator") = "tkn1"
    /\ tokenFile.tokens["operator"].scopes = <<"operator.admin", "operator.pairing">>

\* C16: when an ok:false response settles a pending connect request,
\* onStatus is called once, with connected:false and the error message of
\* the response, and the transport the connect request was sent on, when it
\* is open, is closed with code 4000 and reason 'connect failed'.
C16_FailedHandshake ==
    [][(/\ OneMsg(op') /\ op'.msgs[1].type = "res" /\ ~op'.msgs[1].ok
        /\ pending[op'.msgs[1].id].method = "connect") =>
          LET m == op'.msgs[1]
              carrier == pending[m.id].on
          IN /\ statusOut' = <<Status(FALSE, None, ResultOf(m).error, 0, None)>>
             /\ ~connected'
             /\ readyState[carrier] = "open" =>
                   /\ readyState'[carrier] = "closing"
                   /\ closeArgs'[carrier] = CloseInfo(4000, "connect failed")]_vars

\* A failure: a close event, or an onStatus call that carries an error
\* (missing nonce, rejected handshake)
Failure ==
    \/ op.name \in {"close", "error"}
    \/ \E k \in DOMAIN statusOut : statusOut[k].error # NoErr

\* C17: when stop() is never called, a failure never leaves the instance
\* without a transport and without an armed timer; every failure is followed
\* by the Disconnected state (no current transport), and that state, with
\* the timer armed, by a new connection attempt.
C17_Reconnects ==
    /\ [](Failure => (ws # 0 \/ reconnectTimer))
    /\ [](Failure => <>(/\ ws = 0 /\ reconnectTimer
                        /\ <>(/\ op.name \in {"timer", "start"}
                              /\ ws # 0 /\ readyState[ws] = "connecting")))

\* the transport closed for a missing nonce has delivered its close event:
\* no current transport, the timer armed
C17_Witness ==
    /\ op.name = "close" /\ op.info = CloseInfo(4000, "missing nonce")
    /\ ws = 0 /\ reconnectTimer

\* the messages onEvent is to receive
Forwarded(m) == m.type = "event" /\ m.event # "connect.challenge"

\* C18: the onEvent calls of a step that handles messages are exactly the
\* messages of type 'event' other than connect.challenge, each once, as
\* received and in the order received, whatever the state of the
\* connection; no other step calls onEvent.
C18_EventsForwarded ==
    eventOut = IF op.name = "message" THEN SelectSeq(op.msgs, Forwarded) ELSE <<>>

\* an event has been forwarded on an open transport before any challenge
C18_Witness ==
    /\ OneMsg(op) /\ op.msgs[1] \in EventMsgs /\ eventOut = op.msgs
    /\ ~connected /\ ~connectSent
    /\ ws # 0 /\ readyState[ws] = "open" /\ challenged = {}

\* The connection state the fields stand for: Connected once the handshake
\* has succeeded; with an open current transport, Authenticating when the
\* handshake was sent and AwaitingChallenge before; Disconnected otherwise.
ConnectionState(w, rs, c, sent) ==
    IF c THEN "Connected"
    ELSE IF w # 0 /\ rs[w] = "open"
    THEN IF sent THEN "Authenticating" ELSE "AwaitingChallenge"
    ELSE "Disconnected"

\* C19: every step that changes the connection state calls onStatus.
C19_StatusOnEveryChange ==
    [][ConnectionState(ws', readyState', connected', connectSent')
          # ConnectionState(ws, readyState, connected, connectSent)
       => statusOut' # <<>>]_vars

\* the challenges of a chunk that carry a usable nonce
UsableChallenges(msgs) ==
    {k \in DOMAIN msgs : msgs[k] \in ChallengeMsgs /\ msgs[k].nonce \in Nonces}

\* C20: an envelope is sent only by a step in which request() is called: one
\* at most by a caller's request(), and by a step that handles messages one
\* connect request at most per challenge; no envelope sent carries the id
\* of a request that was made before the step and is still outstanding
\* after it; and a close event leaves no request pending and sends nothing,
\* as do open, start(), stop() and the timer.
C20_NoRetry ==
    [][/\ \A k \in DOMAIN sentOut' :
             sentOut'[k].id \notin
                (Keys(pending) \ {r.id : r \in Range(settledOut')}) \cup abandoned
       /\ \A j, k \in DOMAIN sentOut' : j # k => sentOut'[j].id # sentOut'[k].id
       /\ op'.name = "request" =>
             /\ Len(sentOut') <= 1
             /\ \A e \in Range(sentOut') : e.method \in UserMethods
       /\ op'.name = "message" =>
             /\ Len(sentOut') <= Cardinality(UsableChallenges(op'.msgs))
             /\ \A e \in Range(sentOut') : e.method = "connect"
       /\ op'.name \notin {"request", "message"} => sentOut' = <<>>
       /\ op'.name = "close" => Keys(pending') = {}]_vars

\* a close event has rejected a pending request while another transport of
\* the instance is open, and nothing has been sent on it
C20_Witness ==
    /\ op.name = "close" /\ Len(settledOut) = 1 /\ sentOut = <<>>
    /\ ws = 0 /\ \E t \in Slots : readyState[t] = "open"

-----------------------------------------------------------------------------
(* The token store *)

\* C21: token isolation.  After any sequence of save() calls, load() for a
\* deviceId other than the one the container was last written for returns
\* null, for every role: both what load() would return in the state and
\* what a call of load() did return.
C21_TokenIsolation ==
    /\ \A d \in DeviceIds, r \in Roles :
          d # savedFor => load(tokenFile, d, r) = None
    /\ (storeOp.name = "load" /\ storeOp.deviceId # savedFor)
          => storeOp.result = None

\* load() for dev2 and a role whose token was saved for dev1
C21_Witness ==
    /\ storeOp.name = "load"
    /\ storeOp.deviceId = "dev2"
    /\ storeOp.result = None
    /\ savedFor = "dev1"
    /\ tokenFile.deviceId = "dev1"
    /\ tokenFile.tokens[storeOp.role].token = "tkn1"

\* C22: save() with an empty token is a no-op: the file is left exactly as
\* it was, be it absent, unreadable or a container (no entry added,
\* overwritten or removed, same deviceId).
C22_EmptyTokenNoOp ==
    [][(storeOp'.name = "save" /\ storeOp'.token = "") => tokenFile' = tokenFile]_vars

\* save() of the empty token for another device and a role that has a token
C22_Witness ==
    /\ storeOp.name = "save"
    /\ storeOp.token = ""
    /\ storeOp.deviceId = "dev2"
    /\ storeOp.scopes = RequestedScopes
    /\ tokenFile.deviceId = "dev1"
    /\ tokenFile.tokens[storeOp.role].token = "tkn1"

\* a save() of a token
SavesToken(o) == o.name = "save" /\ o.token # ""

\* C28: a save() of a token keeps the entries of the other roles when the
\* container it finds has the deviceId of the call and discards them all
\* otherwise and sets the entry of its role; so the container always holds,
\* under the deviceId of the last save, exactly the last token saved for
\* each role since that deviceId changed, and load() with that deviceId
\* returns it.
C28_LatestTokenPerRole ==
    /\ [][SavesToken(storeOp') =>
            /\ tokenFile'.deviceId = storeOp'.deviceId
            /\ tokenFile'.tokens[storeOp'.role].token = storeOp'.token
            /\ \A r \in Roles \ {storeOp'.role} :
                  tokenFile'.tokens[r] =
                     IF _read(tokenFile).deviceId = storeOp'.deviceId
                     THEN tokenFile.tokens[r] ELSE NoEntry]_vars
    /\ [](savedFor # None =>
            /\ tokenFile.deviceId = savedFor
            /\ \A r \in Roles :
                  /\ tokenFile.tokens[r].token = savedTokens[r]
                  /\ load(tokenFile, savedFor, r) = savedTokens[r])

\* a save() for one role that found the token of the other role, saved for
\* the same device
C28_Witness ==
    /\ SavesToken(storeOp)
    /\ storeOp.deviceId = "dev1" /\ storeOp.role = "node" /\ storeOp.token = "tkn2"
    /\ tokenFile.deviceId = "dev1"
    /\ tokenFile.tokens["operator"].token = "tkn1"
    /\ tokenFile.tokens["node"].token = "tkn2"
    /\ savedTokens["operator"] = "tkn1"

\* a list of scope strings in strictly ascending order: sorted, no duplicates
Ascending(seq) ==
    \A i, j \in DOMAIN seq :
        i < j => \E a, b \in DOMAIN ScopeOrder :
                    a < b /\ ScopeOrder[a] = seq[i] /\ ScopeOrder[b] = seq[j]

\* the list save() stored in the entry of its role
StoredScopes(file, o) == file.tokens[o.role].scopes

\* C29 as stated: the scopes a save() stores are in ascending order without
\* duplicates and are, as a set, exactly the scope strings passed in (none
\* when no list is passed).
C29_ScopesAsGiven ==
    [][SavesToken(storeOp') =>
         /\ Ascending(StoredScopes(tokenFile', storeOp'))
         /\ Range(StoredScopes(tokenFile', storeOp')) =
               IF storeOp'.scopes = NoScopes THEN {} ELSE Range(storeOp'.scopes)]_vars

\* C29, amended: the scopes a save() stores are in ascending order without
\* duplicates and are, as a set, the scope strings passed in with the white
\* space around them removed, without those that are empty then (none when
\* no list is passed).
C29_ScopesTrimmed ==
    [][SavesToken(storeOp') =>
         /\ Ascending(StoredScopes(tokenFile', storeOp'))
         /\ Range(StoredScopes(tokenFile', storeOp')) =
               IF storeOp'.scopes = NoScopes THEN {}
               ELSE {trim(x) : x \in Range(storeOp'.scopes)} \ {""}]_vars

\* a save() of a list with a padded duplicate of one scope
C29_Witness ==
    /\ SavesToken(storeOp)
    /\ storeOp.scopes = <<PaddedScope, "operator.admin">>
    /\ StoredScopes(tokenFile, storeOp) = <<"operator.admin">>

\* C30: save() writes the container atomically: whether it completes or is
\* interrupted, and whoever reads the file meanwhile, the file is the
\* complete container of before the call or the complete new container.
C30_AtomicWrite ==
    [][storeOp'.name = "save" =>
         tokenFile' \in {tokenFile,
                         save(tokenFile, storeOp'.deviceId, storeOp'.role,
                              storeOp'.token, storeOp'.scopes)}]_vars

-----------------------------------------------------------------------------
(* The identity store *)

LoadedOrCreated == storeOp.name = "loadOrCreateIdentity"

\* C23: every identity loadOrCreateIdentity() returns, generated, loaded
\* unchanged or loaded and repaired, has the fingerprint of its own public
\* key as its deviceId, and the file holds the same public key and the same
\* deviceId, so that the fingerprint of the persisted key is the deviceId.
C23_FingerprintInvariant ==
    LoadedOrCreated =>
        /\ identity # NoIdentity
        /\ identity.publicKeyPem \in PublicPems
        /\ identity.deviceId = fingerprintPublicKey(identity.publicKeyPem)
        /\ identityFile.publicKeyPem = identity.publicKeyPem
        /\ identityFile.deviceId = fingerprintPublicKey(identityFile.publicKeyPem)

\* an identity loaded from a record that was not generated by this store
C23_Witness ==
    /\ LoadedOrCreated
    /\ identity = Identity("dev1", "pkA", "skA")
    /\ identityFile = IdFile(1, "dev1", "pkA", "skA", 0)

\* a version 1 record with its three strings whose public key is a key
HasKey(file) ==
    /\ file \notin {NoIdFile, CorruptIdFile}
    /\ file.version = 1
    /\ file.deviceId # None
    /\ file.publicKeyPem \in PublicPems
    /\ file.privateKeyPem # None

\* C24: identity self-healing.  On a well-formed record whose deviceId is
\* not the fingerprint of its public key, loadOrCreateIdentity() returns
\* the fingerprint with the record's two keys, and the file afterwards is
\* the record with the fingerprint as its deviceId and nothing else changed.
C24_SelfHealing ==
    [][(/\ LoadedOrCreated'
        /\ HasKey(identityFile)
        /\ identityFile.deviceId # fingerprintPublicKey(identityFile.publicKeyPem))
       => LET derivedId == fingerprintPublicKey(identityFile.publicKeyPem) IN
          /\ storeOp'.result = "returned"
          /\ identity' = Identity(derivedId, identityFile.publicKeyPem,
                                  identityFile.privateKeyPem)
          /\ identityFile' = [identityFile EXCEPT !.deviceId = derivedId]]_vars

\* a repaired record: no record the store finds or generates has this deviceId
C24_Witness ==
    /\ LoadedOrCreated
    /\ identity = Identity("dev3", "pkR", "skR")
    /\ identityFile = IdFile(1, "dev3", "pkR", "skR", 5)

\* C25: when the identity file is missing, is not JSON, is not a version 1
\* record, lacks one of its three strings or holds no public key,
\* loadOrCreateIdentity() returns, without throwing, an identity made of a
\* generated key pair, and has written it to the file.
C25_ReadFailureGenerates ==
    [][(LoadedOrCreated' /\ ~HasKey(identityFile))
       => /\ storeOp'.result = "returned"
          /\ \E pair \in KeyPairs :
                /\ identity' = Identity(fingerprintPublicKey(pair.publicKeyPem),
                                        pair.publicKeyPem, pair.privateKeyPem)
                /\ identityFile' = IdFile(1, identity'.deviceId, pair.publicKeyPem,
                                          pair.privateKeyPem, Now)]_vars

\* a generated identity
C25_Witness ==
    /\ LoadedOrCreated
    /\ storeOp.result = "returned"
    /\ identity = Identity("dev2", "pkB", "skB")
    /\ identityFile = IdFile(1, "dev2", "pkB", "skB", Now)

-----------------------------------------------------------------------------
(* The tokens of the handshake *)

\* the payload signed for envelope e has tok as its token field: it is the
\* payload of e's own fields and tok
SignedToken(e, tok) ==
    e.params.signature.payload =
        buildDeviceAuthPayload(
            PayloadParams("v2", e.params.deviceId, e.params.clientId,
                          e.params.clientMode, e.params.role, e.params.scopes,
                          e.params.signedAt, tok, e.params.nonce))

\* C26: once the token store holds a token for this device and the role of
\* the handshake, every connect request sent from then on presents it, as
\* auth.token or as the token of the signed payload.
C26_StoredTokenPresented ==
    [][\A k \in DOMAIN sentOut' :
          LET e == sentOut'[k]
              stored == load(tokenFile, DeviceId, "operator")
          IN (e.method = "connect" /\ stored # None)
             => (e.params.auth = stored \/ SignedToken(e, stored))]_vars

\* C27: the bearer token of the handshake is the configured shared secret,
\* whatever the token store holds: auth.token of every connect request is
\* this.token and auth is left out when no secret is configured, and the
\* token of the signed payload is this.token or the empty string.
C27_BearerIsSharedSecret ==
    \A e \in ConnectsSent :
        /\ e.params.auth = (IF token \in {None, ""} THEN None ELSE token)
        /\ SignedToken(e, IF token \in {None, ""} THEN "" ELSE token)

\* a handshake without a shared secret when the store holds a device token
C27_Witness ==
    /\ token = None
    /\ load(tokenFile, DeviceId, "operator") = "tkn1"
    /\ \E e \in ConnectsSent : e.params.auth = None /\ SignedToken(e, "")

-----------------------------------------------------------------------------
(* The connection and the stores *)

\* an ok response to a pending connect request that carries a device token
IssuesToken(m, p) ==
    /\ m.type = "res" /\ m.ok
    /\ p[m.id].method = "connect"
    /\ m.payload.deviceToken \notin {None, ""}

\* C31: the token file changes only in a step that handles an ok response
\* to a pending connect request carrying a non-empty device token; every
\* other step (a failed handshake, a hello without a token or with an empty
\* one, a response to another request, an event, a close, start(), stop(),
\* request(), open, error, the timer) leaves it as it was; and no step
\* removes the entry of a role.
C31_StoreFrame ==
    [][/\ tokenFile' # tokenFile =>
            /\ op'.name = "message"
            /\ \E m \in Range(op'.msgs) : IssuesToken(m, pending)
       /\ \A r \in Roles :
            tokenFile.tokens[r] # NoEntry => tokenFile'.tokens[r] # NoEntry]_vars

\* stop() on an instance whose store holds a token
C31_Witness ==
    /\ op.name = "stop"
    /\ stopHadWs
    /\ load(tokenFile, DeviceId, "operator") = "tkn1"

\* the fields of a canonical payload, in order: the version (v2 when none is
\* given), the ids, the role, the scopes joined by ',', the time in decimal
\* digits, the bearer token or nothing
C32_Base(version, deviceId, clientId, clientMode, role, scopes, signedAtMs, tok) ==
    version \o "|" \o deviceId \o "|" \o clientId \o "|" \o clientMode \o "|"
    \o role \o "|" \o join(scopes, ",") \o "|" \o ToString(signedAtMs) \o "|"
    \o (IF tok = None THEN "" ELSE tok)

\* C32: the payload buildDeviceAuthPayload() returns is the '|'-join of the
\* eight fields, followed by the nonce as a ninth field exactly when the
\* version is v2; the payload signed for a connect request is the one of
\* version v2 whose device id, client, role, scopes, time, bearer token and
\* nonce are the fields of that request.
C32_CanonicalPayload ==
    /\ [](built # NoBuilt =>
            LET p == built.params
                version == IF p.version = None THEN "v2" ELSE p.version
                base == C32_Base(version, p.deviceId, p.clientId, p.clientMode,
                                 p.role, p.scopes, p.signedAtMs, p.token)
            IN built.payload =
                 IF version = "v2"
                 THEN base \o "|" \o (IF p.nonce = None THEN "" ELSE p.nonce)
                 ELSE base)
    /\ [][\A e \in ConnectsSent' :
            e.params.signature.payload =
                C32_Base("v2", e.params.deviceId, e.params.clientId,
                         e.params.clientMode, e.params.role, e.params.scopes,
                         e.params.signedAt, e.params.auth)
                \o "|" \o e.params.nonce]_vars

\* a connect request was sent with the shared secret, and a caller has built
\* a payload of version v1, which has no nonce
C32_Witness ==
    /\ \E e \in ConnectsSent :
          e.params.signature.payload =
              "v2|dev1|openclaw-control-ui|webchat|operator|"
              \o "operator.admin,operator.approvals,operator.pairing|7|s3cret|abc"
    /\ built # NoBuilt
    /\ built.params.version = "v1" /\ built.params.nonce = "abc"
    /\ built.payload = "v1|dev1|openclaw-control-ui|webchat|operator||7|s3cret"

\* C33: a connect request is sent only by a step that handles messages of
\* the transport it is sent on, and the nonce it carries and signs is the
\* nonce of a connect.challenge among them: a nonce received on one
\* transport is never used on another.
C33_NonceOfOwnSession ==
    [][\A e \in ConnectsSent' :
          /\ op'.name = "message"
          /\ e.on = op'.on
          /\ \E i \in DOMAIN op'.msgs :
                /\ op'.msgs[i] \in ChallengeMsgs
                /\ op'.msgs[i].nonce = e.params.nonce
                /\ SignedToken(e, IF e.params.auth = None THEN "" ELSE e.params.auth)]_vars

\* a version 1 record with its three strings and a key that can be read
C34_WellFormed(file) ==
    /\ file.version = 1
    /\ file.deviceId # None
    /\ file.publicKeyPem \in PublicPems
    /\ file.privateKeyPem # None

\* C34: once the identity file holds a well-formed record, every call of
\* loadOrCreateIdentity() leaves the key pair of the record as it is and, when
\* it returns, returns that key pair, whether its writes succeed or fail.
C34_IdentityStable ==
    [][C34_WellFormed(identityFile) =>
          /\ identityFile'.publicKeyPem = identityFile.publicKeyPem
          /\ identityFile'.privateKeyPem = identityFile.privateKeyPem
          /\ storeOp'.result = "returned" =>
                /\ identity'.publicKeyPem = identityFile.publicKeyPem
                /\ identity'.privateKeyPem = identityFile.privateKeyPem]_vars

\* C35: the id of an envelope a request() of a caller sends is the id of no
\* entry the pending map held when request() was called, so no entry is
\* overwritten.
C35_FreshCorrelationId ==
    [][op'.name = "request" =>
          \A e \in Range(sentOut') : e.id \notin Keys(pending)]_vars

\* C36: a close or message event of a transport other than the current one
\* (this.ws names another transport) leaves this.ws, connected, the
\* handshake-sent flag, the nonce and the reconnect timer as they are.
C36_SupersededTransportInert ==
    [][\A t \in Slots :
          (/\ ws # 0 /\ ws # t
           /\ \/ op'.name = "message" /\ op'.on = t
              \/ op'.name = "close" /\ readyState[t] # "free" /\ readyState'[t] = "free")
          => UNCHANGED <<ws, connected, connectSent, connectNonce,
                         reconnectTimer, timers>>]_vars

\* C37: a pending request is rejected by a close step only when that step
\* closes the transport the request was sent on.
C37_RejectedByOwnClose ==
    [][op'.name = "close" =>
          \A i \in Keys(pending) :
             pending'[i] = NoCall => readyState'[pending[i].on] = "free"]_vars

\* C38: connected implies that this.ws names an open transport, and that no
\* connect request is pending on it: its handshake has succeeded.
C38_ConnectedMeansOpen ==
    connected =>
        /\ ws # 0
        /\ readyState[ws] = "open"
        /\ \A i \in Keys(pending) :
              ~(pending[i].method = "connect" /\ pending[i].on = ws)

\* C39: an envelope with a method other than connect is sent only on a
\* transport on which the handshake has succeeded: the instance is connected
\* and the transport is the current one.
C39_NoRequestBeforeHandshake ==
    [][\A e \in Range(sentOut') :
          e.method # "connect" => (connected /\ ws = e.on)]_vars

\* C40: after every notification gatewayConnected is the connected value of
\* that notification, and gatewayConnectedSince is set exactly when
\* gatewayConnected is true; gatewayTotalConnectedMs never decreases, and it
\* grows only in a step from connected to disconnected.
C40_StatusTracking ==
    /\ [](statusOut # <<>> =>
            state.gatewayConnected = statusOut[Len(statusOut)].connected)
    /\ [](state.gatewayConnected <=> state.gatewayConnectedSince # NoSince)
    /\ [][/\ state'.gatewayTotalConnectedMs >= state.gatewayTotalConnectedMs
          /\ state'.gatewayTotalConnectedMs > state.gatewayTotalConnectedMs =>
                (state.gatewayConnected /\ ~state'.gatewayConnected)]_vars

\* C40 without its clause that the total never decreases
C40_Tracking ==
    /\ [](statusOut # <<>> =>
            state.gatewayConnected = statusOut[Len(statusOut)].connected)
    /\ [](state.gatewayConnected <=> state.gatewayConnectedSince # NoSince)
    /\ [][state'.gatewayTotalConnectedMs > state.gatewayTotalConnectedMs =>
                (state.gatewayConnected /\ ~state'.gatewayConnected)]_vars

====
